---- MODULE Spec2Model ----
(***************************************************************************)
(* State-machine model of Thesis2_Code.py: the TGS 2602 / MiCS-5524 gas    *)
(* sensor monitor (ADS1115 initialisation, calibrate_sensor, the seven     *)
(* estimate_* curve fits and the monitoring loop of main).                 *)
(*                                                                         *)
(* Python floats are modelled as binary floating-point numbers with        *)
(* round-to-nearest-even, the exponent range of IEEE binary64 and a        *)
(* mantissa of MantissaBits bits, so that rounding, overflow, infinities   *)
(* and NaN behave as they do in the program.                               *)
(***************************************************************************)
EXTENDS Integers, Sequences, FiniteSets, TLC

\* ------------------------------------------------------------------------
\* Bounds of the model
\* ------------------------------------------------------------------------

\* Mantissa width of the modelled floats (binary64 has 53).
MantissaBits == 12

\* Monitoring cycles after which the model stops following the endless loop.
MaxCycles == 2

\* ------------------------------------------------------------------------
\* Floating-point arithmetic (Python float: +, -, *, /, **, comparisons)
\* ------------------------------------------------------------------------

\* Largest binary exponent of a finite binary64 (values below 2^1024).
MaxExp == 1023

\* Smallest binary exponent of a non-zero binary64 (2^-1074).
MinExp == -1074

RECURSIVE Pow2(_)
Pow2(n) == IF n <= 0 THEN 1 ELSE 2 * Pow2(n - 1)

RECURSIVE BitLen(_)
BitLen(m) == IF m = 0 THEN 0 ELSE 1 + BitLen(m \div 2)

Abs(n) == IF n < 0 THEN -n ELSE n

Sgn(n) == IF n < 0 THEN -1 ELSE IF n = 0 THEN 0 ELSE 1

\* A float is a record: k is "fin", "inf" or "nan"; a finite non-zero value
\* is s * m * 2^e with s the sign and Pow2(MantissaBits-1) <= m < Pow2(MantissaBits).
Fl(k, s, m, e) == [k |-> k, s |-> s, m |-> m, e |-> e]

Zero == Fl("fin", 0, 0, 0)

Inf == Fl("inf", 1, 0, 0)

NegInf == Fl("inf", -1, 0, 0)

NaN == Fl("nan", 0, 0, 0)

SignedInf(s) == IF s < 0 THEN NegInf ELSE Inf

IsFinite(x) == x.k = "fin"

IsNaN(x) == x.k = "nan"

\* An exception raised while evaluating an expression, carried as a value:
\* exc is the exception's class name.
Raise(exc) == Fl(exc, 0, 0, 0)

\* A name not yet bound to a value.
None == Fl("None", 0, 0, 0)

\* Marks a run of samples that were not all the same voltage.
Mixed == Fl("mixed", 0, 0, 0)

\* The string "Out of Range" returned in place of a number.
OutOfRange == Fl("Out of Range", 0, 0, 0)

IsFloat(x) == x.k \in {"fin", "inf", "nan"}

IsRaise(x) == ~IsFloat(x) /\ x # None /\ x # OutOfRange

\* Round s * m * 2^e (m any natural number) to the nearest float, ties to even;
\* a magnitude of 2^1024 or more becomes an infinity, one below 2^-1074 zero.
Normalize(s, m, e) ==
    IF m = 0 \/ s = 0 THEN Zero
    ELSE LET len == BitLen(m)
             k == len - MantissaBits
         IN IF k <= 0
            THEN LET E == e + len - 1
                 IN IF E > MaxExp THEN SignedInf(s)
                    ELSE IF E < MinExp THEN Zero
                    ELSE Fl("fin", s, m * Pow2(-k), e + k)
            ELSE LET q == m \div Pow2(k)
                     r == m % Pow2(k)
                     half == Pow2(k - 1)
                     up == r > half \/ (r = half /\ q % 2 = 1)
                     q1 == IF up THEN q + 1 ELSE q
                     m2 == IF q1 = Pow2(MantissaBits) THEN Pow2(MantissaBits - 1) ELSE q1
                     e2 == IF q1 = Pow2(MantissaBits) THEN e + k + 1 ELSE e + k
                     E == e2 + MantissaBits - 1
                 IN IF E > MaxExp THEN SignedInf(s)
                    ELSE IF E < MinExp THEN Zero
                    ELSE Fl("fin", s, m2, e2)

\* int -> float conversion.
FromInt(n) == Normalize(Sgn(n), Abs(n), 0)

FNeg(x) == Fl(x.k, -x.s, x.m, x.e)

\* x + y
FAdd(x, y) ==
    IF IsNaN(x) \/ IsNaN(y) THEN NaN
    ELSE IF x.k = "inf" /\ y.k = "inf" THEN (IF x.s = y.s THEN x ELSE NaN)
    ELSE IF x.k = "inf" THEN x
    ELSE IF y.k = "inf" THEN y
    ELSE IF x.s = 0 THEN y
    ELSE IF y.s = 0 THEN x
    ELSE IF x.e - y.e > MantissaBits + 2 THEN x
    ELSE IF y.e - x.e > MantissaBits + 2 THEN y
    ELSE LET lo == IF x.e < y.e THEN x.e ELSE y.e
             sum == x.s * x.m * Pow2(x.e - lo) + y.s * y.m * Pow2(y.e - lo)
         IN Normalize(Sgn(sum), Abs(sum), lo)

\* x - y
FSub(x, y) == FAdd(x, FNeg(y))

\* x * y
FMul(x, y) ==
    IF IsNaN(x) \/ IsNaN(y) THEN NaN
    ELSE IF x.k = "inf" \/ y.k = "inf"
         THEN (IF x.s = 0 \/ y.s = 0 THEN NaN ELSE SignedInf(x.s * y.s))
    ELSE Normalize(x.s * y.s, x.m * y.m, x.e + y.e)

\* x / y (float division by zero raises ZeroDivisionError)
FDiv(x, y) ==
    IF y.k = "fin" /\ y.s = 0 THEN Raise("ZeroDivisionError")
    ELSE IF IsNaN(x) \/ IsNaN(y) THEN NaN
    ELSE IF x.k = "inf" THEN (IF y.k = "inf" THEN NaN ELSE SignedInf(x.s * y.s))
    ELSE IF y.k = "inf" THEN Zero
    ELSE IF x.s = 0 THEN Zero
    ELSE LET num == x.m * Pow2(MantissaBits + 2)
             q == num \div y.m
             sticky == IF num % y.m = 0 THEN 0 ELSE 1
         IN Normalize(x.s * y.s, 2 * q + sticky, x.e - y.e - MantissaBits - 3)

\* x < y (False whenever an operand is NaN)
FLt(x, y) ==
    IF IsNaN(x) \/ IsNaN(y) THEN FALSE
    ELSE IF x.k = "inf" THEN x.s < 0 /\ ~(y.k = "inf" /\ y.s < 0)
    ELSE IF y.k = "inf" THEN y.s > 0
    ELSE IF x.s # y.s THEN x.s < y.s
    ELSE IF x.s = 0 THEN FALSE
    ELSE IF x.s > 0 THEN x.e < y.e \/ (x.e = y.e /\ x.m < y.m)
    ELSE x.e > y.e \/ (x.e = y.e /\ x.m > y.m)

\* x == y
FEq(x, y) == ~IsNaN(x) /\ ~IsNaN(y) /\ x = y

\* x <= y
FLe(x, y) == FLt(x, y) \/ FEq(x, y)

\* x > y
FGt(x, y) == FLt(y, x)

\* The decimal literal n / 10^d (453.0 is Dec(453, 0), 4.096 is Dec(4096, 3)).
RECURSIVE Pow10(_)
Pow10(d) == IF d <= 0 THEN 1 ELSE 10 * Pow10(d - 1)

Dec(n, d) == FDiv(FromInt(n), FromInt(Pow10(d)))

\* The first n bits of the fraction of log2(y / 2^(MantissaBits-1)) for a
\* mantissa y, by repeated squaring.
RECURSIVE LogFrac(_, _)
LogFrac(y, n) ==
    IF n = 0 THEN 0
    ELSE LET sq == (y * y) \div Pow2(MantissaBits - 1)
         IN IF sq >= Pow2(MantissaBits)
            THEN Pow2(n - 1) + LogFrac(sq \div 2, n - 1)
            ELSE LogFrac(sq, n - 1)

\* LogFrac of every mantissa, tabulated.
LogTable ==
    [m \in Pow2(MantissaBits - 1) .. (Pow2(MantissaBits) - 1) |->
        LogFrac(m, MantissaBits)]

\* The largest mantissa in lo..hi-1 whose LogFrac is at most f (bisection).
RECURSIVE ExpSearch(_, _, _)
ExpSearch(f, lo, hi) ==
    IF hi - lo <= 1 THEN lo
    ELSE LET mid == (lo + hi) \div 2
         IN IF LogTable[mid] <= f
            THEN ExpSearch(f, mid, hi)
            ELSE ExpSearch(f, lo, mid)

\* The mantissa of 2^(f / 2^MantissaBits), the inverse of LogFrac.
Exp2Frac(f) == ExpSearch(f, Pow2(MantissaBits - 1), Pow2(MantissaBits))

\* x ** y for a finite non-zero exponent y (float_pow): NaN and +inf bases
\* give the IEEE results, a result of 2^1024 or more raises OverflowError, a
\* result below 2^-1074 is 0.0, a zero base with a negative exponent raises
\* ZeroDivisionError and a negative base gives a non-real (complex) result.
\* Computed as 2^(y * log2 x) in fixed point with MantissaBits fraction bits.
Pow(x, y) ==
    IF IsNaN(x) THEN NaN
    ELSE IF x.k = "inf" /\ x.s > 0 THEN (IF y.s > 0 THEN Inf ELSE Zero)
    ELSE IF x.s = 0 THEN (IF y.s > 0 THEN Zero ELSE Raise("ZeroDivisionError"))
    ELSE IF x.s < 0 THEN Raise("complex")
    ELSE LET P == MantissaBits
             yfix == IF y.e + P >= 0 THEN y.m * Pow2(y.e + P)
                     ELSE y.m \div Pow2(-(y.e + P))
             Eint == x.e + P - 1
             Lfrac == LogTable[x.m]
             T == y.s * (yfix * Eint + (yfix * Lfrac) \div Pow2(P))
             n == T \div Pow2(P)
             f == T % Pow2(P)
         IN IF n > MaxExp THEN Raise("OverflowError")
            ELSE Normalize(1, Exp2Frac(f), n - (P - 1))


\* ------------------------------------------------------------------------
\* Configuration constants
\* ------------------------------------------------------------------------

\* LOAD_RESISTOR_OHMS_TGS = 453.0
LOAD_RESISTOR_OHMS_TGS == FromInt(453)

\* ADC_CHANNEL_TGS = ADS.P0
ADC_CHANNEL_TGS == "P0"

\* LOAD_RESISTOR_OHMS_MICS = 10000.0
LOAD_RESISTOR_OHMS_MICS == FromInt(10000)

\* ADC_CHANNEL_MICS = ADS.P1
ADC_CHANNEL_MICS == "P1"

\* ADS1115_GAIN = 1, kept as the fraction <<numerator, denominator>> so that
\* the comparison with 2/3 can be made.
ADS1115_GAIN == <<1, 1>>

CALIBRATION_READING_COUNT == 100

\* The sensor names main passes to calibrate_sensor.
TGS_NAME == "TGS 2602"

MICS_NAME == "MiCS-5524"

\* The analog-input handles main creates: AnalogIn(ads, channel), identified
\* by their channel.
tgs_sensor_adc == ADC_CHANNEL_TGS

mics_sensor_adc == ADC_CHANNEL_MICS

Channels == {ADC_CHANNEL_TGS, ADC_CHANNEL_MICS}

\* ------------------------------------------------------------------------
\* What a channel can read
\* ------------------------------------------------------------------------

\* The voltages (in millivolts) a read of adc_object.voltage may return:
\* an open circuit (0), readings inside the range, the full-scale reading
\* (4096) and a reading above the reference voltage.
MilliVolts == {0, 2048, 2560, 3584, 4096, 5120}

MilliVolt(mv) == FDiv(FromInt(mv), FromInt(1000))

Voltages == {MilliVolt(mv) : mv \in MilliVolts}

\* ------------------------------------------------------------------------
\* Pure functions
\* ------------------------------------------------------------------------

\* adc_reference_voltage as selected inside calculate_sensor_resistance.
adc_reference_voltage ==
    IF ADS1115_GAIN = <<1, 1>> THEN Dec(4096, 3)
    ELSE IF ADS1115_GAIN = <<2, 3>> THEN Dec(6144, 3)
    ELSE Dec(4096, 3)

\* Mutation: the open-circuit guard (adc_voltage == 0) is missing.
calculate_sensor_resistance_unguarded(adc_voltage, load_resistor_ohms) ==
    FDiv(FMul(load_resistor_ohms, FSub(adc_reference_voltage, adc_voltage)),
         adc_voltage)

calculate_sensor_resistance(adc_voltage, load_resistor_ohms) ==
    IF FEq(adc_voltage, Zero) THEN Inf
    ELSE FDiv(FMul(load_resistor_ohms, FSub(adc_reference_voltage, adc_voltage)),
              adc_voltage)

\* The float 10^k.
RECURSIVE FPow10(_)
FPow10(k) ==
    IF k = 0 THEN FromInt(1)
    ELSE CHOOSE p \in {FMul(FromInt(10), t) : t \in {FPow10(k - 1)}} : TRUE

\* a * pw, or the exception pw stands for.
Scaled(a, pw) == IF IsRaise(pw) THEN pw ELSE FMul(a, pw)

estimate_ammonia_ppm_tgs(rs_ro_ratio) ==
    IF FLe(rs_ro_ratio, Zero) THEN Inf
    ELSE Scaled(Dec(1036, 4), Pow(rs_ro_ratio, FNeg(Dec(68685, 4))))

estimate_hydrogen_sulfide_ppm_tgs(rs_ro_ratio) ==
    IF FLe(rs_ro_ratio, Zero) THEN Inf
    ELSE Scaled(Dec(758, 4), Pow(rs_ro_ratio, FNeg(Dec(27174, 4))))

estimate_co_ppm(rs_ro_ratio) ==
    IF FLe(rs_ro_ratio, Zero) THEN Inf
    ELSE LET estimated_ppm == Scaled(Dec(176, 3), Pow(rs_ro_ratio, FNeg(Dec(105, 2))))
         IN IF IsRaise(estimated_ppm) THEN estimated_ppm
            ELSE IF FLe(FromInt(1), estimated_ppm) /\ FLe(estimated_ppm, FromInt(1000))
                 THEN estimated_ppm
            ELSE OutOfRange

estimate_ethanol_ppm(rs_ro_ratio) ==
    IF FLe(rs_ro_ratio, Zero) THEN Inf
    ELSE LET estimated_ppm == Scaled(Dec(115, 2), Pow(rs_ro_ratio, FNeg(Dec(205, 2))))
         IN IF IsRaise(estimated_ppm) THEN estimated_ppm
            ELSE IF FLe(FromInt(10), estimated_ppm) /\ FLe(estimated_ppm, FromInt(500))
                 THEN estimated_ppm
            ELSE OutOfRange

estimate_hydrogen_ppm(rs_ro_ratio) ==
    IF FLe(rs_ro_ratio, Zero) THEN Inf
    ELSE LET estimated_ppm == Scaled(Dec(16, 1), Pow(rs_ro_ratio, FNeg(Dec(17, 1))))
         IN IF IsRaise(estimated_ppm) THEN estimated_ppm
            ELSE IF FLe(FromInt(1), estimated_ppm) /\ FLe(estimated_ppm, FromInt(1000))
                 THEN estimated_ppm
            ELSE OutOfRange

\* Mutation: the guard reads rs_ro_ratio < 0, letting a zero ratio through.
estimate_ammonia_ppm_mics_strict(rs_ro_ratio) ==
    IF FLt(rs_ro_ratio, Zero) THEN Inf
    ELSE LET estimated_ppm == Scaled(FromInt(1290), Pow(rs_ro_ratio, Dec(672, 2)))
         IN IF IsRaise(estimated_ppm) THEN estimated_ppm
            ELSE IF FLe(FromInt(1), estimated_ppm) /\ FLe(estimated_ppm, FromInt(500))
                 THEN estimated_ppm
            ELSE OutOfRange

estimate_ammonia_ppm_mics(rs_ro_ratio) ==
    IF FLe(rs_ro_ratio, Zero) THEN Inf
    ELSE LET estimated_ppm == Scaled(FromInt(1290), Pow(rs_ro_ratio, Dec(672, 2)))
         IN IF IsRaise(estimated_ppm) THEN estimated_ppm
            ELSE IF FLe(FromInt(1), estimated_ppm) /\ FLe(estimated_ppm, FromInt(500))
                 THEN estimated_ppm
            ELSE OutOfRange

estimate_methane_ppm(rs_ro_ratio) ==
    IF FLe(rs_ro_ratio, Zero) THEN Inf
    ELSE LET estimated_ppm == Scaled(FMul(Dec(125, 2), FPow10(16)),
                                     Pow(rs_ro_ratio, FNeg(FromInt(28))))
         IN IF IsRaise(estimated_ppm) THEN estimated_ppm
            ELSE IF FGt(estimated_ppm, FromInt(1000)) THEN estimated_ppm
            ELSE OutOfRange

\* ------------------------------------------------------------------------
\* State
\* ------------------------------------------------------------------------

VARIABLES
    pc,                \* the statement main (or calibrate_sensor) is at
    exit,              \* how main ended: "running", "returned", or the
                       \* class of the exception that left main uncaught
    cal,               \* the frame of calibrate_sensor: its arguments and locals
    baseline_ro_tgs,   \* main's locals
    baseline_ro_mics,
    cyc,               \* the values the current monitoring cycle computed
    report,            \* the sensor report being printed, None otherwise
    console,           \* what has been printed so far
    cycle,             \* number of the monitoring cycle under way
    hist               \* history of the run: calls of calibrate_sensor,
                       \* channel reads, and the channel and load resistor
                       \* each derived value was computed from

vars == <<pc, exit, cal, baseline_ro_tgs, baseline_ro_mics, cyc, report,
          console, cycle, hist>>

InitPcs == {"i2c", "ads", "ain_tgs", "ain_mics"}

CalPcs == {"cal_warmup", "cal_read", "cal_sleep"}

MonPcs == {"tgs_value", "tgs_voltage", "mics_value", "mics_voltage",
           "print_report", "sleep"}

NoFrame == [sensor_name |-> "", adc_object |-> "", i |-> 0,
            voltage |-> None, total_resistance |-> None]

NoCycle == [current_voltage_tgs |-> None, current_rs_tgs |-> None,
            rs_ro_ratio_tgs |-> None, ammonia_ppm_tgs |-> None,
            h2s_ppm_tgs |-> None,
            current_voltage_mics |-> None, current_rs_mics |-> None,
            rs_ro_ratio_mics |-> None, co_ppm |-> None,
            ethanol_ppm |-> None, hydrogen_ppm |-> None,
            ammonia_ppm_mics |-> None, methane_ppm |-> None]

NoSamples == [ch \in Channels |-> 0]

Init ==
    /\ pc = "i2c"
    /\ exit = "running"
    /\ cal = NoFrame
    /\ baseline_ro_tgs = None
    /\ baseline_ro_mics = None
    /\ cyc = NoCycle
    /\ report = None
    /\ console = [init_failed |-> FALSE, starting |-> FALSE, reports |-> 0,
                  error |-> "", exit_notice |-> FALSE]
    /\ cycle = 0
    /\ hist = [calls |-> <<>>, samples |-> NoSamples, mon_reads |-> NoSamples,
               const |-> [ch \in Channels |-> None],
               zero |-> [ch \in Channels |-> FALSE],
               from_cal |-> {}, from_ro_tgs |-> {}, from_ro_mics |-> {},
               from_rs_tgs |-> {}, from_rs_mics |-> {}]

\* ------------------------------------------------------------------------
\* main: hardware initialisation (the first try block)
\* ------------------------------------------------------------------------

\* Entering calibrate_sensor(adc_object, sensor_name): the banner is printed
\* and the warm-up sleep begins.  h is the history up to the call.
CallCalibrate(adc_object, sensor_name, h) ==
    /\ pc' = "cal_warmup"
    /\ cal' = [sensor_name |-> sensor_name, adc_object |-> adc_object, i |-> 0,
               voltage |-> None, total_resistance |-> None]
    /\ hist' = [h EXCEPT !.calls = Append(@, sensor_name), !.from_cal = {}]

\* Mutation: the handler lacks its return and falls through to calibration.
InitFailureFallThrough ==
    /\ console' = [console EXCEPT !.init_failed = TRUE]
    /\ CallCalibrate(tgs_sensor_adc, TGS_NAME, hist)
    /\ UNCHANGED <<exit, baseline_ro_tgs, baseline_ro_mics, cyc, report, cycle>>

\* except Exception as e: print the two diagnostic lines; return
InitFailure ==
    /\ console' = [console EXCEPT !.init_failed = TRUE]
    /\ pc' = "done"
    /\ exit' = "returned"
    /\ UNCHANGED <<cal, baseline_ro_tgs, baseline_ro_mics, cyc, report, cycle, hist>>

InitStep(next) ==
    /\ pc' = next
    /\ UNCHANGED <<exit, cal, baseline_ro_tgs, baseline_ro_mics, cyc, report,
                   console, cycle, hist>>

\* i2c = busio.I2C(board.SCL, board.SDA)
CreateI2C ==
    /\ pc = "i2c"
    /\ \E ok \in BOOLEAN : IF ok THEN InitStep("ads") ELSE InitFailure

\* ads = ADS.ADS1115(i2c, gain=ADS1115_GAIN)
CreateADS ==
    /\ pc = "ads"
    /\ \E ok \in BOOLEAN : IF ok THEN InitStep("ain_tgs") ELSE InitFailure

\* tgs_sensor_adc = AnalogIn(ads, ADC_CHANNEL_TGS)
CreateAnalogInTgs ==
    /\ pc = "ain_tgs"
    /\ \E ok \in BOOLEAN : IF ok THEN InitStep("ain_mics") ELSE InitFailure

\* mics_sensor_adc = AnalogIn(ads, ADC_CHANNEL_MICS); then the first call
\* baseline_ro_tgs = calibrate_sensor(tgs_sensor_adc, "TGS 2602") begins.
CreateAnalogInMics ==
    /\ pc = "ain_mics"
    /\ \E ok \in BOOLEAN :
        IF ok
        THEN /\ CallCalibrate(tgs_sensor_adc, TGS_NAME, hist)
             /\ UNCHANGED <<exit, baseline_ro_tgs, baseline_ro_mics, cyc, report,
                            console, cycle>>
        ELSE InitFailure

\* ------------------------------------------------------------------------
\* calibrate_sensor
\* ------------------------------------------------------------------------

\* An exception of class exc leaves calibrate_sensor and main uncaught
\* (traceback, no message of the program's own); the frames are gone.
Uncaught(exc) ==
    /\ pc' = "done"
    /\ exit' = exc
    /\ cal' = NoFrame
    /\ UNCHANGED <<baseline_ro_tgs, baseline_ro_mics, cyc, report, console, cycle>>

\* Mutation: the comparison with the sensor name is inverted.
LoadResistorForSwapped(sensor_name) ==
    IF sensor_name # TGS_NAME THEN LOAD_RESISTOR_OHMS_TGS
    ELSE LOAD_RESISTOR_OHMS_MICS

\* LOAD_RESISTOR_OHMS_TGS if sensor_name == 'TGS 2602' else LOAD_RESISTOR_OHMS_MICS
LoadResistorFor(sensor_name) ==
    IF sensor_name = TGS_NAME THEN LOAD_RESISTOR_OHMS_TGS
    ELSE LOAD_RESISTOR_OHMS_MICS

\* Mutation: the sample replaces the running total (= instead of +=).
AccumulateOverwrite(total_resistance, resistance) == resistance

\* total_resistance += resistance
Accumulate(total_resistance, resistance) == FAdd(total_resistance, resistance)

\* avg_resistance = total_resistance / CALIBRATION_READING_COUNT
Average(total_resistance) ==
    FDiv(total_resistance, FromInt(CALIBRATION_READING_COUNT))

\* time.sleep(5), then total_resistance = 0.0 and the loop is entered.
CalWarmup ==
    /\ pc = "cal_warmup"
    /\ pc' = "cal_read"
    /\ cal' = [cal EXCEPT !.total_resistance = Zero, !.i = 0]
    /\ UNCHANGED <<exit, baseline_ro_tgs, baseline_ro_mics, cyc, report, console,
                   cycle, hist>>

\* The air around the sensor is stable while it is calibrated: a sample
\* repeats the previous one, unless the sensor has become disconnected
\* (a reading of 0, which then persists).
StableAir(v) == cal.i = 0 \/ v = cal.voltage \/ v = Zero

\* One pass of the loop body up to its sleep: voltage = adc_object.voltage,
\* the conversion, the accumulation and the progress line.  The read may
\* raise (a bus error), and nothing in calibrate_sensor or main catches it.
CalRead ==
    /\ pc = "cal_read"
    /\ \/ /\ Uncaught("OSError")
          /\ UNCHANGED hist
       \/ \E v \in Voltages :
            /\ StableAir(v)
            /\ LET load == LoadResistorFor(cal.sensor_name)
                   resistance == calculate_sensor_resistance(v, load)
                   h == [hist EXCEPT
                           !.samples[cal.adc_object] = @ + 1,
                           !.const[cal.adc_object] =
                               IF @ = None \/ @ = v THEN v ELSE Mixed,
                           !.zero[cal.adc_object] = @ \/ v = Zero,
                           !.from_cal = @ \union {<<cal.adc_object, load>>}]
               IN IF IsRaise(resistance)
                  THEN /\ Uncaught(resistance.k)
                       /\ hist' = h
                  ELSE /\ pc' = "cal_sleep"
                       /\ cal' = [cal EXCEPT
                                    !.voltage = v,
                                    !.total_resistance = Accumulate(@, resistance)]
                       /\ hist' = h
                       /\ UNCHANGED <<exit, baseline_ro_tgs, baseline_ro_mics,
                                      cyc, report, console, cycle>>

\* Mutation: the loop goes back to calibrating the TGS 2602.
NextCycleRecalibrate ==
    /\ CallCalibrate(tgs_sensor_adc, TGS_NAME, hist)
    /\ cycle' = cycle + 1
    /\ cyc' = NoCycle
    /\ report' = None

\* Back at the top of the while True loop: the next cycle starts at its
\* first read.
NextCycle ==
    /\ pc' = "tgs_value"
    /\ cycle' = cycle + 1
    /\ cyc' = NoCycle
    /\ report' = None
    /\ UNCHANGED <<cal, hist>>

\* time.sleep(0.1) ends the pass.  After the last pass calibrate_sensor
\* returns the average, which main binds to baseline_ro_tgs and goes on to
\* calibrate the MiCS-5524, or binds to baseline_ro_mics, prints
\* "--- Starting Gas Detection ---" and enters the loop.
CalSleep ==
    /\ pc = "cal_sleep"
    /\ IF cal.i + 1 < CALIBRATION_READING_COUNT
       THEN /\ pc' = "cal_read"
            /\ cal' = [cal EXCEPT !.i = @ + 1]
            /\ UNCHANGED <<exit, baseline_ro_tgs, baseline_ro_mics, cyc, report,
                           console, cycle, hist>>
       ELSE LET avg_resistance == Average(cal.total_resistance)
            IN IF baseline_ro_tgs = None
               THEN /\ baseline_ro_tgs' = avg_resistance
                    /\ CallCalibrate(mics_sensor_adc, MICS_NAME,
                                     [hist EXCEPT !.from_ro_tgs = hist.from_cal])
                    /\ UNCHANGED <<exit, baseline_ro_mics, cyc, report, console,
                                   cycle>>
               ELSE /\ baseline_ro_mics' = avg_resistance
                    /\ console' = [console EXCEPT !.starting = TRUE]
                    /\ pc' = "tgs_value"
                    /\ cycle' = 1
                    /\ cal' = NoFrame
                    /\ hist' = [hist EXCEPT !.from_cal = {},
                                            !.from_ro_mics = hist.from_cal]
                    /\ UNCHANGED <<exit, baseline_ro_tgs, cyc, report>>

\* ------------------------------------------------------------------------
\* main: the monitoring loop (while True: try: ...)
\* ------------------------------------------------------------------------

\* Mutation: the handler continues with the next iteration instead of
\* breaking out of the loop.
CycleErrorContinue(exc) ==
    /\ console' = [console EXCEPT !.error = exc]
    /\ pc' = "tgs_value"
    /\ UNCHANGED exit

\* except Exception as e: print(f"An error occurred during detection: {e}"); break
\* main then returns.
CycleError(exc) ==
    /\ console' = [console EXCEPT !.error = exc]
    /\ pc' = "done"
    /\ exit' = "returned"

\* raw_adc_value_tgs = tgs_sensor_adc.value (the raw code is only printed)
ReadTgsValue ==
    /\ pc = "tgs_value"
    /\ cycle <= MaxCycles
    /\ hist' = [hist EXCEPT !.mon_reads[tgs_sensor_adc] = @ + 1]
    /\ \/ /\ CycleError("OSError")
          /\ cyc' = NoCycle
          /\ UNCHANGED <<cal, baseline_ro_tgs, baseline_ro_mics, report, cycle>>
       \/ /\ pc' = "tgs_voltage"
          /\ UNCHANGED <<exit, cal, baseline_ro_tgs, baseline_ro_mics, cyc, report,
                         console, cycle>>

\* rs_ro_ratio = current_rs / baseline_ro if baseline_ro > 0 else float('inf')
Ratio(current_rs, baseline_ro) ==
    IF FGt(baseline_ro, Zero) THEN FDiv(current_rs, baseline_ro) ELSE Inf

\* current_voltage_tgs = tgs_sensor_adc.voltage, then the conversion, the
\* ratio and the two TGS 2602 estimates.  (Each value is bound once, by a
\* quantifier over a singleton, in the order the statements compute them.)
ReadTgsVoltage ==
    /\ pc = "tgs_voltage"
    /\ \/ /\ CycleError("OSError")
          /\ hist' = [hist EXCEPT !.mon_reads[tgs_sensor_adc] = @ + 1]
          /\ cyc' = NoCycle
          /\ UNCHANGED <<cal, baseline_ro_tgs, baseline_ro_mics, report, cycle>>
       \/ \E v \in Voltages :
          \E current_rs_tgs \in {calculate_sensor_resistance(v, LOAD_RESISTOR_OHMS_TGS)} :
          \E rs_ro_ratio_tgs \in {IF IsRaise(current_rs_tgs) THEN current_rs_tgs
                                  ELSE Ratio(current_rs_tgs, baseline_ro_tgs)} :
          \E ammonia_ppm_tgs \in {IF IsRaise(rs_ro_ratio_tgs) THEN rs_ro_ratio_tgs
                                  ELSE estimate_ammonia_ppm_tgs(rs_ro_ratio_tgs)} :
          \E h2s_ppm_tgs \in {IF IsRaise(ammonia_ppm_tgs) THEN ammonia_ppm_tgs
                              ELSE estimate_hydrogen_sulfide_ppm_tgs(rs_ro_ratio_tgs)} :
            /\ hist' = [hist EXCEPT
                          !.mon_reads[tgs_sensor_adc] = @ + 1,
                          !.from_rs_tgs = {<<tgs_sensor_adc, LOAD_RESISTOR_OHMS_TGS>>}]
            /\ IF IsRaise(h2s_ppm_tgs)
               THEN /\ CycleError(h2s_ppm_tgs.k)
                    /\ cyc' = [NoCycle EXCEPT !.current_voltage_tgs = v]
                    /\ UNCHANGED <<cal, baseline_ro_tgs, baseline_ro_mics,
                                   report, cycle>>
               ELSE /\ pc' = "mics_value"
                    /\ cyc' = [cyc EXCEPT
                                 !.current_voltage_tgs = v,
                                 !.current_rs_tgs = current_rs_tgs,
                                 !.rs_ro_ratio_tgs = rs_ro_ratio_tgs,
                                 !.ammonia_ppm_tgs = ammonia_ppm_tgs,
                                 !.h2s_ppm_tgs = h2s_ppm_tgs]
                    /\ UNCHANGED <<exit, cal, baseline_ro_tgs, baseline_ro_mics,
                                   report, console, cycle>>

\* raw_adc_value_mics = mics_sensor_adc.value
ReadMicsValue ==
    /\ pc = "mics_value"
    /\ hist' = [hist EXCEPT !.mon_reads[mics_sensor_adc] = @ + 1]
    /\ \/ /\ CycleError("OSError")
          /\ cyc' = NoCycle
          /\ UNCHANGED <<cal, baseline_ro_tgs, baseline_ro_mics, report, cycle>>
       \/ /\ pc' = "mics_voltage"
          /\ UNCHANGED <<exit, cal, baseline_ro_tgs, baseline_ro_mics, cyc, report,
                         console, cycle>>

\* current_voltage_mics = mics_sensor_adc.voltage, then the conversion, the
\* ratio and the five MiCS-5524 estimates.
ReadMicsVoltage ==
    /\ pc = "mics_voltage"
    /\ \/ /\ CycleError("OSError")
          /\ hist' = [hist EXCEPT !.mon_reads[mics_sensor_adc] = @ + 1]
          /\ cyc' = NoCycle
          /\ UNCHANGED <<cal, baseline_ro_tgs, baseline_ro_mics, report, cycle>>
       \/ \E v \in Voltages :
          \E current_rs_mics \in {calculate_sensor_resistance(v, LOAD_RESISTOR_OHMS_MICS)} :
          \E rs_ro_ratio_mics \in {IF IsRaise(current_rs_mics) THEN current_rs_mics
                                   ELSE Ratio(current_rs_mics, baseline_ro_mics)} :
          \E co_ppm \in {IF IsRaise(rs_ro_ratio_mics) THEN rs_ro_ratio_mics
                         ELSE estimate_co_ppm(rs_ro_ratio_mics)} :
          \E ethanol_ppm \in {IF IsRaise(co_ppm) THEN co_ppm
                              ELSE estimate_ethanol_ppm(rs_ro_ratio_mics)} :
          \E hydrogen_ppm \in {IF IsRaise(ethanol_ppm) THEN ethanol_ppm
                               ELSE estimate_hydrogen_ppm(rs_ro_ratio_mics)} :
          \E ammonia_ppm_mics \in {IF IsRaise(hydrogen_ppm) THEN hydrogen_ppm
                                   ELSE estimate_ammonia_ppm_mics(rs_ro_ratio_mics)} :
          \E methane_ppm \in {IF IsRaise(ammonia_ppm_mics) THEN ammonia_ppm_mics
                              ELSE estimate_methane_ppm(rs_ro_ratio_mics)} :
            /\ hist' = [hist EXCEPT
                          !.mon_reads[mics_sensor_adc] = @ + 1,
                          !.from_rs_mics = {<<mics_sensor_adc, LOAD_RESISTOR_OHMS_MICS>>}]
            /\ IF IsRaise(methane_ppm)
               THEN /\ CycleError(methane_ppm.k)
                    /\ cyc' = [NoCycle EXCEPT !.current_voltage_mics = v]
                    /\ UNCHANGED <<cal, baseline_ro_tgs, baseline_ro_mics,
                                   report, cycle>>
               ELSE /\ pc' = "print_report"
                    /\ cyc' = [cyc EXCEPT
                                 !.current_voltage_mics = v,
                                 !.current_rs_mics = current_rs_mics,
                                 !.rs_ro_ratio_mics = rs_ro_ratio_mics,
                                 !.co_ppm = co_ppm,
                                 !.ethanol_ppm = ethanol_ppm,
                                 !.hydrogen_ppm = hydrogen_ppm,
                                 !.ammonia_ppm_mics = ammonia_ppm_mics,
                                 !.methane_ppm = methane_ppm]
                    /\ UNCHANGED <<exit, cal, baseline_ro_tgs, baseline_ro_mics,
                                   report, console, cycle>>

\* The lines of the combined output, from "--- Sensor Data" to the dashes.
\* The :.4f and :.2f formats are applied to floats only, and the five
\* MiCS-5524 estimates are printed unformatted, so no line can raise.
PrintReport ==
    /\ pc = "print_report"
    /\ report' = cyc
    /\ console' = [console EXCEPT !.reports = @ + 1]
    /\ pc' = "sleep"
    /\ UNCHANGED <<exit, cal, baseline_ro_tgs, baseline_ro_mics, cyc, cycle, hist>>

\* time.sleep(2), then the next iteration.
Sleep ==
    /\ pc = "sleep"
    /\ cycle < MaxCycles
    /\ NextCycle
    /\ UNCHANGED <<exit, baseline_ro_tgs, baseline_ro_mics, console>>

\* KeyboardInterrupt (Ctrl-C) arrives while main is running.  Inside the
\* loop's try block it is caught: "Exiting sensor monitoring." is printed
\* and the loop is left.  Anywhere else no handler catches it
\* (except Exception does not catch KeyboardInterrupt).
Interrupt ==
    /\ pc # "done"
    /\ pc' = "done"
    /\ IF pc \in MonPcs
       THEN /\ console' = [console EXCEPT !.exit_notice = TRUE]
            /\ exit' = "returned"
       ELSE /\ exit' = "KeyboardInterrupt"
            /\ UNCHANGED console
    /\ cal' = NoFrame
    /\ cyc' = NoCycle
    /\ report' = None
    /\ UNCHANGED <<baseline_ro_tgs, baseline_ro_mics, cycle, hist>>

Next ==
    \/ CreateI2C
    \/ CreateADS
    \/ CreateAnalogInTgs
    \/ CreateAnalogInMics
    \/ CalWarmup
    \/ CalRead
    \/ CalSleep
    \/ ReadTgsValue
    \/ ReadTgsVoltage
    \/ ReadMicsValue
    \/ ReadMicsVoltage
    \/ PrintReport
    \/ Sleep
    \/ Interrupt

Spec == Init /\ [][Next]_vars

\* ------------------------------------------------------------------------
\* The estimators on their own
\* ------------------------------------------------------------------------

\* The float n / d.
Frac(n, d) == FDiv(FromInt(n), FromInt(d))

\* Ratios handed to the estimators: non-positive ones, NaN and infinity,
\* ratios on both sides of every gate, and ratios small or large enough for
\* the power to leave the range of a float.
Ratios ==
    {FromInt(-1), Zero, NegInf, Inf, NaN,
     Frac(1, 7), Frac(6, 10), FromInt(1), FromInt(3), Frac(42, 10),
     Frac(1, 100), FDiv(FromInt(1), FPow10(12)), FDiv(FromInt(1), FPow10(50)),
     FPow10(50)}

Estimators == {"ammonia_ppm_tgs", "h2s_ppm_tgs", "co_ppm", "ethanol_ppm",
               "hydrogen_ppm", "ammonia_ppm_mics", "methane_ppm"}

InitEstimators ==
    /\ pc = "estimate"
    /\ exit = "running"
    /\ cal = NoFrame
    /\ baseline_ro_tgs = None
    /\ baseline_ro_mics = None
    /\ \E r \in Ratios :
         cyc = [NoCycle EXCEPT !.rs_ro_ratio_tgs = r, !.rs_ro_ratio_mics = r]
    /\ report = None
    /\ console = [init_failed |-> FALSE, starting |-> FALSE, reports |-> 0,
                  error |-> "", exit_notice |-> FALSE]
    /\ cycle = 0
    /\ hist = [calls |-> <<>>, samples |-> NoSamples, mon_reads |-> NoSamples,
               const |-> [ch \in Channels |-> None],
               zero |-> [ch \in Channels |-> FALSE],
               from_cal |-> {}, from_ro_tgs |-> {}, from_ro_mics |-> {},
               from_rs_tgs |-> {}, from_rs_mics |-> {}]

\* A call of one estimator; its result (or the exception it raised) is kept
\* under the estimator's name.
Estimated(name, result) ==
    /\ pc = "estimate"
    /\ cyc[name] = None
    /\ cyc' = [cyc EXCEPT ![name] = result]
    /\ UNCHANGED <<pc, exit, cal, baseline_ro_tgs, baseline_ro_mics, report,
                   console, cycle, hist>>

CallAmmoniaTgs ==
    Estimated("ammonia_ppm_tgs", estimate_ammonia_ppm_tgs(cyc.rs_ro_ratio_tgs))

CallHydrogenSulfideTgs ==
    Estimated("h2s_ppm_tgs", estimate_hydrogen_sulfide_ppm_tgs(cyc.rs_ro_ratio_tgs))

CallCo == Estimated("co_ppm", estimate_co_ppm(cyc.rs_ro_ratio_mics))

CallEthanol == Estimated("ethanol_ppm", estimate_ethanol_ppm(cyc.rs_ro_ratio_mics))

CallHydrogen == Estimated("hydrogen_ppm", estimate_hydrogen_ppm(cyc.rs_ro_ratio_mics))

CallAmmoniaMics ==
    Estimated("ammonia_ppm_mics", estimate_ammonia_ppm_mics(cyc.rs_ro_ratio_mics))

CallMethane == Estimated("methane_ppm", estimate_methane_ppm(cyc.rs_ro_ratio_mics))

NextEstimators ==
    \/ CallAmmoniaTgs
    \/ CallHydrogenSulfideTgs
    \/ CallCo
    \/ CallEthanol
    \/ CallHydrogen
    \/ CallAmmoniaMics
    \/ CallMethane

SpecEstimators == InitEstimators /\ [][NextEstimators]_vars

\* ------------------------------------------------------------------------
\* Properties
\* ------------------------------------------------------------------------

IsFiniteNonNegative(x) == x.k = "fin" /\ x.s >= 0

FAbs(x) == Fl(x.k, Abs(x.s), x.m, x.e)

AllSamples == [ch \in Channels |-> CALIBRATION_READING_COUNT]

\* C1: a non-positive baseline is checked before Monitoring is entered, so no
\* monitoring cycle is ever performed while baseline_ro_tgs <= 0 or
\* baseline_ro_mics <= 0.
C1_BaselineCheckedBeforeMonitoring ==
    pc \in MonPcs =>
        /\ ~FLe(baseline_ro_tgs, Zero)
        /\ ~FLe(baseline_ro_mics, Zero)

\* A step taken while monitoring leaves calibration behind for good.
MonitoringKeepsBaselines ==
    pc \in MonPcs =>
        /\ pc' \notin CalPcs
        /\ hist'.calls = hist.calls
        /\ hist'.samples = hist.samples
        /\ baseline_ro_tgs' = baseline_ro_tgs
        /\ baseline_ro_mics' = baseline_ro_mics

\* C2: Calibrating -> Monitoring with no way back: calibrate_sensor runs once
\* per sensor, TGS 2602 then MiCS-5524, before the first cycle; once
\* monitoring, no calibration sample is taken and both baselines stay as
\* they are.
C2_CalibrateOnceThenMonitor ==
    /\ [](hist.calls \in {<<>>, <<TGS_NAME>>, <<TGS_NAME, MICS_NAME>>})
    /\ [](pc \in MonPcs =>
            /\ hist.calls = <<TGS_NAME, MICS_NAME>>
            /\ hist.samples = AllSamples
            /\ baseline_ro_tgs # None
            /\ baseline_ro_mics # None)
    /\ [][MonitoringKeepsBaselines]_vars

\* C2 witness: a second monitoring cycle is under way.
C2_Witness == pc = "mics_voltage" /\ cycle = 2 /\ console.reports = 1

\* C3: when hardware initialisation fails, the diagnostic is printed and main
\* returns before calibration: no calibration sample, no monitoring read and
\* no report happen in that run.
C3_InitFailureStopsBeforeCalibration ==
    console.init_failed =>
        /\ pc = "done"
        /\ exit = "returned"
        /\ hist.calls = <<>>
        /\ hist.samples = NoSamples
        /\ hist.mon_reads = NoSamples
        /\ console.reports = 0
        /\ ~console.starting
        /\ baseline_ro_tgs = None
        /\ baseline_ro_mics = None

\* C3 witness: an initialisation failure has been reported.
C3_Witness == console.init_failed /\ pc = "done"

\* C4: a failure raised while reading or converting in a monitoring cycle is
\* reported and ends the loop: main has returned, no read follows, and the
\* failing cycle printed no report (reports stand at the cycles completed
\* before it).
C4_CycleErrorEndsLoop ==
    console.error # "" =>
        /\ pc = "done"
        /\ exit = "returned"
        /\ report = None
        /\ console.reports = cycle - 1
        /\ ~console.exit_notice
        /\ ~ENABLED Next

\* C4 witness: a read failed in the second cycle, after one full report.
C4_Witness == console.error = "OSError" /\ cycle = 2 /\ console.reports = 1

\* C5: an interruption delivered after startup, in Calibrating or in
\* Monitoring, is handled by the program: the exit notice is printed, main
\* returns, and no further channel read is performed.
C5_InterruptHandledCleanly ==
    (Len(hist.calls) > 0 /\ (exit = "KeyboardInterrupt" \/ console.exit_notice)) =>
        /\ console.exit_notice
        /\ exit = "returned"
        /\ pc = "done"

OpenCircuit(c) ==
    c # None /\ (c.current_voltage_tgs = Zero \/ c.current_voltage_mics = Zero)

FullReport(r) == r # None /\ \A name \in DOMAIN NoCycle : IsFloat(r[name]) \/ r[name] = OutOfRange

\* What a step of a cycle holding an open-circuit reading does.
OpenCircuitStepGoesOn ==
    /\ (pc = "tgs_voltage" /\ cyc'.current_voltage_tgs = Zero) =>
          (pc' = "mics_value" /\ cyc'.current_rs_tgs = Inf /\ console' = console)
    /\ (pc = "mics_voltage" /\ cyc'.current_voltage_mics = Zero) =>
          (pc' = "print_report" /\ cyc'.current_rs_mics = Inf /\ console' = console)
    /\ (pc = "print_report" /\ OpenCircuit(cyc) /\ ~console'.exit_notice) =>
          (pc' = "sleep" /\ report' = cyc /\ FullReport(report')
           /\ console'.reports = console.reports + 1)
    /\ (pc = "sleep" /\ OpenCircuit(report) /\ ~console'.exit_notice) =>
          (pc' = "tgs_value" /\ cycle' = cycle + 1 /\ console' = console)

\* C6: an open-circuit reading never stops the pipeline:
\* calculate_sensor_resistance returns +infinity (and does not raise) for
\* voltage 0, and a cycle in which a channel reads 0 goes on to its full
\* report and to the next cycle, whatever baselines calibration produced.
\* (Only a failing read or an interruption ends such a cycle.)
C6_OpenCircuitDoesNotStopPipeline ==
    /\ [](/\ calculate_sensor_resistance(Zero, LOAD_RESISTOR_OHMS_TGS) = Inf
          /\ calculate_sensor_resistance(Zero, LOAD_RESISTOR_OHMS_MICS) = Inf)
    /\ [][OpenCircuitStepGoesOn]_vars

\* C6 witness: an open-circuit cycle has been reported against a +infinity
\* baseline (ratio inf / inf) and the next cycle is running.
C6_Witness ==
    /\ pc = "sleep"
    /\ cycle = 2
    /\ report.current_voltage_tgs = Zero
    /\ baseline_ro_tgs = Inf
    /\ IsNaN(report.rs_ro_ratio_tgs)

\* The rule of the table: +infinity for ratio <= 0, else p = a * ratio^b,
\* returned if the gate admits it and the Out-of-Range sentinel otherwise.
\* gate is "none", "range" (lo <= p <= hi) or "above" (p > lo).
ReferenceRule(ratio, a, b, gate, lo, hi) ==
    IF FLe(ratio, Zero) THEN Inf
    ELSE LET p == Scaled(a, Pow(ratio, b))
         IN IF gate = "none" THEN p
            ELSE IF gate = "range"
                 THEN (IF FLe(FromInt(lo), p) /\ FLe(p, FromInt(hi)) THEN p ELSE OutOfRange)
            ELSE (IF FGt(p, FromInt(lo)) THEN p ELSE OutOfRange)

Reference(name, ratio) ==
    CASE name = "ammonia_ppm_tgs" ->
            ReferenceRule(ratio, Dec(1036, 4), FNeg(Dec(68685, 4)), "none", 0, 0)
      [] name = "h2s_ppm_tgs" ->
            ReferenceRule(ratio, Dec(758, 4), FNeg(Dec(27174, 4)), "none", 0, 0)
      [] name = "co_ppm" ->
            ReferenceRule(ratio, Dec(176, 3), FNeg(Dec(105, 2)), "range", 1, 1000)
      [] name = "ethanol_ppm" ->
            ReferenceRule(ratio, Dec(115, 2), FNeg(Dec(205, 2)), "range", 10, 500)
      [] name = "hydrogen_ppm" ->
            ReferenceRule(ratio, Dec(16, 1), FNeg(Dec(17, 1)), "range", 1, 1000)
      [] name = "ammonia_ppm_mics" ->
            ReferenceRule(ratio, FromInt(1290), Dec(672, 2), "range", 1, 500)
      [] name = "methane_ppm" ->
            ReferenceRule(ratio, FMul(Dec(125, 2), FPow10(16)), FNeg(FromInt(28)),
                          "above", 1000, 0)

\* C7: for every ratio each estimator returns what the rule of the table
\* gives: +infinity for ratio <= 0, otherwise p = a * ratio^b, or the
\* Out-of-Range sentinel where the gate rejects p.  (Returning is part of
\* the rule: an estimator that raises returns neither.)
C7_EstimatorsFollowReferenceRule ==
    \A name \in Estimators :
        cyc[name] # None =>
            /\ ~IsRaise(cyc[name])
            /\ cyc[name] = Reference(name, cyc.rs_ro_ratio_mics)

ReportedEstimates(r) ==
    {<<r.ammonia_ppm_tgs, r.rs_ro_ratio_tgs, TRUE>>,
     <<r.h2s_ppm_tgs, r.rs_ro_ratio_tgs, TRUE>>,
     <<r.co_ppm, r.rs_ro_ratio_mics, FALSE>>,
     <<r.ethanol_ppm, r.rs_ro_ratio_mics, FALSE>>,
     <<r.hydrogen_ppm, r.rs_ro_ratio_mics, FALSE>>,
     <<r.ammonia_ppm_mics, r.rs_ro_ratio_mics, FALSE>>,
     <<r.methane_ppm, r.rs_ro_ratio_mics, FALSE>>}

\* C8 as stated: every reported estimate is a finite non-negative number or
\* the Out-of-Range sentinel.
C8_EstimateFiniteOrOutOfRange ==
    report # None =>
        \A t \in ReportedEstimates(report) :
            IsFiniteNonNegative(t[1]) \/ t[1] = OutOfRange

\* C8 amended: every reported estimate is a finite non-negative number, the
\* Out-of-Range sentinel, +infinity, or (TGS estimates only) NaN; none is
\* negative.  It is +infinity whenever the ratio is <= 0 (a reading at or
\* above the reference voltage against a positive baseline), and NaN only
\* when the ratio is NaN (reading 0 against a +infinity baseline).
C8_EstimateKinds ==
    report # None =>
        \A t \in ReportedEstimates(report) :
            /\ \/ IsFiniteNonNegative(t[1])
               \/ t[1] = OutOfRange
               \/ t[1] = Inf
               \/ (IsNaN(t[1]) /\ t[3])
            /\ FLe(t[2], Zero) => t[1] = Inf
            /\ IsNaN(t[1]) => IsNaN(t[2])

\* C8 witness: against a positive finite baseline, one report holds a
\* +infinity estimate (ratio <= 0), a numeric estimate and the sentinel.
C8_Witness ==
    /\ report # None
    /\ IsFinite(baseline_ro_tgs)
    /\ baseline_ro_tgs.s > 0
    /\ report.ammonia_ppm_tgs = Inf
    /\ report.rs_ro_ratio_mics.s > 0
    /\ IsFiniteNonNegative(report.co_ppm)
    /\ report.ammonia_ppm_mics = OutOfRange

\* The sensor whose samples come from channel ch.
LoadOfChannel(ch) ==
    IF ch = ADC_CHANNEL_TGS THEN LOAD_RESISTOR_OHMS_TGS ELSE LOAD_RESISTOR_OHMS_MICS

BaselineOfChannel(ch) ==
    IF ch = ADC_CHANNEL_TGS THEN baseline_ro_tgs ELSE baseline_ro_mics

\* x added n times to acc, in order.
RECURSIVE AddTimes(_, _, _)
AddTimes(acc, x, n) ==
    IF n = 0 THEN acc
    ELSE CHOOSE total \in {FAdd(t, x) : t \in {AddTimes(acc, x, n - 1)}} : TRUE

\* x added n times to 0.0, in order (evaluated in runs of ten additions).
RECURSIVE RepeatedSum(_, _)
RepeatedSum(x, n) ==
    IF n = 0 THEN Zero
    ELSE LET run == IF n % 10 = 0 THEN 10 ELSE n % 10
         IN CHOOSE total \in {AddTimes(t, x, run) : t \in {RepeatedSum(x, n - run)}} : TRUE

\* The float mean of CALIBRATION_READING_COUNT samples that all read v on
\* channel ch: the resistances summed in order, then divided by the count.
MeanOfConstantSamples ==
    [ch \in Channels |->
        [v \in Voltages |->
            FDiv(RepeatedSum(calculate_sensor_resistance(v, LoadOfChannel(ch)),
                             CALIBRATION_READING_COUNT),
                 FromInt(CALIBRATION_READING_COUNT))]]

SamplesWereConstant(ch) == hist.const[ch] # None /\ hist.const[ch] # Mixed

\* The samples calibrate_sensor has taken so far, all from its own channel.
SamplesCounted ==
    /\ pc \in CalPcs =>
         /\ hist.samples[cal.adc_object] = cal.i + (IF pc = "cal_sleep" THEN 1 ELSE 0)
         /\ cal.adc_object = ADC_CHANNEL_TGS => hist.samples[ADC_CHANNEL_MICS] = 0
         /\ cal.adc_object = ADC_CHANNEL_MICS =>
                hist.samples[ADC_CHANNEL_TGS] = CALIBRATION_READING_COUNT
    /\ \A ch \in Channels :
         BaselineOfChannel(ch) # None =>
             hist.samples[ch] = CALIBRATION_READING_COUNT

\* C9 as stated: with every sample the same voltage v_c the baseline equals
\* calculate_sensor_resistance(v_c, R).
C9_ConstantSamplesGiveExactResistance ==
    \A ch \in Channels :
        (BaselineOfChannel(ch) # None /\ SamplesWereConstant(ch)) =>
            BaselineOfChannel(ch) =
                calculate_sensor_resistance(hist.const[ch], LoadOfChannel(ch))

\* C9 amended: calibrate_sensor takes exactly CALIBRATION_READING_COUNT
\* samples, all from its sensor's channel, and returns their resistances'
\* float sum divided by the count; with every sample the same voltage v_c
\* that is calculate_sensor_resistance(v_c, R) up to the rounding of the
\* additions (relative error at most CALIBRATION_READING_COUNT units of
\* roundoff), not exactly; with any sample 0 it is +infinity.
C9_CalibrationMean ==
    /\ SamplesCounted
    /\ \A ch \in Channels :
         LET baseline == BaselineOfChannel(ch)
             rs == calculate_sensor_resistance(hist.const[ch], LoadOfChannel(ch))
         IN baseline # None =>
              /\ hist.zero[ch] => baseline = Inf
              /\ SamplesWereConstant(ch) =>
                   /\ baseline = MeanOfConstantSamples[ch][hist.const[ch]]
                   /\ IsFinite(rs) =>
                        FLe(FMul(FAbs(FSub(baseline, rs)), FromInt(Pow2(MantissaBits))),
                            FMul(FromInt(CALIBRATION_READING_COUNT), FAbs(rs)))

\* C9 witness: a calibration of constant non-zero samples has returned a
\* baseline that differs from the resistance of one sample.
C9_Witness ==
    /\ baseline_ro_tgs # None
    /\ SamplesWereConstant(ADC_CHANNEL_TGS)
    /\ IsFinite(baseline_ro_tgs)
    /\ baseline_ro_tgs #
         calculate_sensor_resistance(hist.const[ADC_CHANNEL_TGS], LOAD_RESISTOR_OHMS_TGS)

TgsOnly == {<<ADC_CHANNEL_TGS, LOAD_RESISTOR_OHMS_TGS>>}

MicsOnly == {<<ADC_CHANNEL_MICS, LOAD_RESISTOR_OHMS_MICS>>}

\* C10: the two pipelines never mix: the TGS baseline and monitoring
\* resistance come only from TGS-channel voltages converted with
\* LOAD_RESISTOR_OHMS_TGS, the MiCS ones only from MiCS-channel voltages with
\* LOAD_RESISTOR_OHMS_MICS, so each sensor's calibration and monitoring use
\* the same load resistance.
C10_PipelinesNeverMix ==
    /\ hist.from_ro_tgs \subseteq TgsOnly
    /\ hist.from_rs_tgs \subseteq TgsOnly
    /\ hist.from_ro_mics \subseteq MicsOnly
    /\ hist.from_rs_mics \subseteq MicsOnly
    /\ baseline_ro_tgs # None => hist.from_ro_tgs = TgsOnly
    /\ baseline_ro_mics # None => hist.from_ro_mics = MicsOnly
    /\ (pc \in CalPcs /\ cal.sensor_name = TGS_NAME) => hist.from_cal \subseteq TgsOnly
    /\ (pc \in CalPcs /\ cal.sensor_name = MICS_NAME) => hist.from_cal \subseteq MicsOnly

\* C10 witness: both baselines and both monitoring resistances have been
\* computed.
C10_Witness ==
    /\ pc = "print_report"
    /\ hist.from_ro_tgs = TgsOnly
    /\ hist.from_ro_mics = MicsOnly
    /\ hist.from_rs_tgs = TgsOnly
    /\ hist.from_rs_mics = MicsOnly
====
